---- MODULE Spec2Model ----
(***************************************************************************)
(* quiren: bulk rename / delete of the files of one directory by editing   *)
(* a listing of their names (src/main.rs, src/util.rs).                    *)
(*                                                                         *)
(* A string (OsString, String, PathBuf) is a sequence of characters; a     *)
(* character is a one-symbol token.  "LF" is the line feed, "CR" the       *)
(* carriage return, "FF" a byte that is not valid UTF-8 (it occurs in file *)
(* names only, never in a String), "RC" is U+FFFD REPLACEMENT CHARACTER,   *)
(* "/" the path separator.  The directory is flat: its entries are regular *)
(* files and an edited line is a single path component.                    *)
(***************************************************************************)
EXTENDS Integers, Sequences, FiniteSets, TLC

\* ------------------------------------------------------------------------
\* Bounds of the model and program constants
\* ------------------------------------------------------------------------

\* largest number of files in the directory at start
MaxEntries == 3
\* largest number of lines the editor writes
MaxLines == 3
\* largest number of changes another process makes while the editor is open
MaxExternal == 1
\* largest number of times the user answers no to the confirmation
MaxRejections == 2
\* largest number of sessions the driver starts again after a failure
MaxAttempts == 1

\* util.rs: const TEMPFILE_MAX_RETRIES
TEMPFILE_MAX_RETRIES == 20
\* util.rs: const TEMPFILE_NAME_LENGTH
TEMPFILE_NAME_LENGTH == 8

\* ------------------------------------------------------------------------
\* Strings
\* ------------------------------------------------------------------------

\* the byte order of the characters (OsString's Ord is bytewise; U+FFFD is
\* encoded EF BF BD)
Ord(ch) ==
  CASE ch = "LF" -> 10
    [] ch = "CR" -> 13
    [] ch = "/"  -> 47
    [] ch = "a"  -> 97
    [] ch = "b"  -> 98
    [] ch = "c"  -> 99
    [] ch = "y"  -> 121
    [] ch = "z"  -> 122
    [] ch = "RC" -> 239
    [] ch = "FF" -> 255

A == <<"a">>
B == <<"b">>
C == <<"c">>
Empty == <<>>
\* a file name that is not valid UTF-8, and what it is decoded to
FFName == <<"FF">>
RCLine == <<"RC">>

\* the names the random generator of tmpfile can produce: the bounded part
\* of the 8-character alphanumeric names
RandChars == {"y", "z"}
RandNames == {[k \in 1..TEMPFILE_NAME_LENGTH |-> ch] : ch \in RandChars}
Y8 == [k \in 1..TEMPFILE_NAME_LENGTH |-> "y"]

\* names a file of the directory can have at start
EntryNames == {A, B, C, Y8, FFName}
\* lines the user can type in the editor
EditorLines == {A, B, C, Empty, Y8, RCLine}

Min(S) == CHOOSE x \in S : \A y \in S : x <= y
Max(S) == CHOOSE x \in S : \A y \in S : x >= y

\* lexicographic bytewise order of two strings: s < t
StrLess(s, t) ==
  \E k \in 1..(Len(s) + 1) :
     /\ k <= Len(t) + 1
     /\ \A j \in 1..(k - 1) : s[j] = t[j]
     /\ \/ k = Len(s) + 1 /\ k <= Len(t)
        \/ k <= Len(s) /\ k <= Len(t) /\ Ord(s[k]) < Ord(t[k])

\* osstr.to_string_lossy(): every invalid byte becomes U+FFFD
to_string_lossy(s) == [k \in DOMAIN s |-> IF s[k] = "FF" THEN "RC" ELSE s[k]]

\* osstrtools concat(sep): the items joined by sep
RECURSIVE concat(_, _)
concat(items, sep) ==
  IF items = <<>> THEN <<>>
  ELSE IF Len(items) = 1 THEN items[1]
  ELSE items[1] \o sep \o concat(Tail(items), sep)

\* str::split_inclusive('\n'): the pieces, each ending with its line feed
\* except possibly the last
RECURSIVE split_inclusive(_)
split_inclusive(s) ==
  IF s = <<>> THEN <<>>
  ELSE LET nl == {k \in DOMAIN s : s[k] = "LF"} IN
       IF nl = {} THEN <<s>>
       ELSE <<SubSeq(s, 1, Min(nl))>> \o split_inclusive(SubSeq(s, Min(nl) + 1, Len(s)))

\* the mapping of str::lines(): strip one final "\n", then one final "\r"
LinesMap(piece) ==
  IF piece # <<>> /\ piece[Len(piece)] = "LF"
  THEN LET l == SubSeq(piece, 1, Len(piece) - 1) IN
       IF l # <<>> /\ l[Len(l)] = "CR" THEN SubSeq(l, 1, Len(l) - 1) ELSE l
  ELSE piece

\* str::lines()
lines(s) == LET p == split_inclusive(s) IN [k \in DOMAIN p |-> LinesMap(p[k])]

Range(f) == {f[k] : k \in DOMAIN f}

\* ------------------------------------------------------------------------
\* Paths and the filesystem
\* ------------------------------------------------------------------------

\* the directory given on the command line
Dir == <<"w">>

\* PathBuf::push of a relative single component / Path::join
Join(dir, name) == dir \o <<"/">> \o name

\* Path::parent and Path::file_name of a path below Dir
Parent(path) == SubSeq(path, 1, Max({k \in DOMAIN path : path[k] = "/"}) - 1)
FileName(path) == SubSeq(path, Max({k \in DOMAIN path : path[k] = "/"}) + 1, Len(path))

\* Path::exists for the entries of a flat directory of regular files
Exists(fsys, path) == path \in DOMAIN fsys

\* the names present in a directory
Names(fsys) == {FileName(p) : p \in DOMAIN fsys}

\* the filesystem without the file at path
Without(fsys, path) == [q \in DOMAIN fsys \ {path} |-> fsys[q]]

\* a rename that leaves the source where it is
fs_rename_keeps_source(fsys, from, to) ==
  IF ~Exists(fsys, from) THEN [ok |-> FALSE, fs |-> fsys]
  ELSE [ok |-> TRUE,
        fs |-> [q \in DOMAIN fsys \cup {to} |->
                  IF q = to THEN fsys[from] ELSE fsys[q]]]

\* std::fs::rename(from, to): fails when from is missing, replaces whatever
\* is at to
fs_rename(fsys, from, to) ==
  IF ~Exists(fsys, from) THEN [ok |-> FALSE, fs |-> fsys]
  ELSE [ok |-> TRUE,
        fs |-> [q \in (DOMAIN fsys \ {from}) \cup {to} |->
                  IF q = to THEN fsys[from] ELSE fsys[q]]]

\* std::fs::remove_file(path) and trash::delete(path): the path leaves the
\* directory; both fail when it is missing
fs_remove(fsys, path) ==
  IF ~Exists(fsys, path) THEN [ok |-> FALSE, fs |-> fsys]
  ELSE [ok |-> TRUE, fs |-> Without(fsys, path)]

\* ------------------------------------------------------------------------
\* main.rs: enum Change, enum QuirenError
\* ------------------------------------------------------------------------

Rename(a, b) == [tag |-> "Rename", from |-> a, to |-> b]
Delete(a) == [tag |-> "Delete", from |-> a, to |-> <<>>]

EmptyName(name) == [kind |-> "EmptyName", a |-> name, b |-> <<>>]
DuplicateName(name) == [kind |-> "DuplicateName", a |-> name, b |-> <<>>]
EntryCountMismatch(expected, actual) ==
  [kind |-> "EntryCountMismatch", a |-> expected, b |-> actual]
Overwrite(from, to) == [kind |-> "Overwrite", a |-> from, b |-> to]
Tempfile == [kind |-> "Tempfile", a |-> <<>>, b |-> <<>>]
IoError == [kind |-> "IoError", a |-> <<>>, b |-> <<>>]
TrashError == [kind |-> "TrashError", a |-> <<>>, b |-> <<>>]

Ok(v) == [ok |-> TRUE, val |-> v]
Err(e) == [ok |-> FALSE, val |-> e]

\* ------------------------------------------------------------------------
\* main.rs: the snapshot and the listing
\* ------------------------------------------------------------------------

\* a DirEntry: file_name() and path()
DirEntry(name) == [file_name |-> name, path |-> Join(Dir, name)]

\* dir.read_dir(): the entries of the directory in an order the system picks
read_dir(fsys) ==
  LET names == {FileName(p) : p \in DOMAIN fsys}
      n == Cardinality(names)
  IN {[k \in 1..n |-> DirEntry(order[k])] :
        order \in {o \in [1..n -> names] : \A i, j \in 1..n : i # j => o[i] # o[j]}}

\* entries.sort_by_key(|e| e.file_name())
sort_by_key(es) == SortSeq(es, LAMBDA x, y : StrLess(x.file_name, y.file_name))

\* the text handed to the editor: the names joined by "\n", lossily decoded
serialize(es) ==
  to_string_lossy(concat([k \in DOMAIN es |-> es[k].file_name], <<"LF">>))

\* ------------------------------------------------------------------------
\* main.rs: extract_renames, extract_deletions
\* ------------------------------------------------------------------------

\* the checks without the search for duplicates
RECURSIVE other_checks_no_duplicates(_, _, _)
other_checks_no_duplicates(ls, es, i) ==
  IF i > Len(ls) THEN Ok(<<>>)
  ELSE IF ls[i] = <<>> THEN Err(EmptyName(to_string_lossy(es[i].file_name)))
  ELSE other_checks_no_duplicates(ls, es, i + 1)

\* the checks with the search for duplicates before the test for emptiness
RECURSIVE other_checks_duplicates_first(_, _, _)
other_checks_duplicates_first(ls, es, i) ==
  IF i > Len(ls) THEN Ok(<<>>)
  ELSE IF \E j \in DOMAIN ls : i # j /\ ls[i] = ls[j] THEN Err(DuplicateName(ls[i]))
  ELSE IF ls[i] = <<>> THEN Err(EmptyName(to_string_lossy(es[i].file_name)))
  ELSE other_checks_duplicates_first(ls, es, i + 1)

\* the checks with every line compared with the next line only
RECURSIVE other_checks_adjacent(_, _, _)
other_checks_adjacent(ls, es, i) ==
  IF i > Len(ls) THEN Ok(<<>>)
  ELSE IF ls[i] = <<>> THEN Err(EmptyName(to_string_lossy(es[i].file_name)))
  ELSE IF i < Len(ls) /\ ls[i] = ls[i + 1] THEN Err(DuplicateName(ls[i]))
  ELSE other_checks_adjacent(ls, es, i + 1)

\* the loop "Other checks" of extract_renames from line i on: line i is
\* checked for emptiness, then against every other line, before line i + 1
RECURSIVE other_checks(_, _, _)
other_checks(ls, es, i) ==
  IF i > Len(ls) THEN Ok(<<>>)
  ELSE IF ls[i] = <<>> THEN Err(EmptyName(to_string_lossy(es[i].file_name)))
  ELSE IF \E j \in DOMAIN ls : i # j /\ ls[i] = ls[j] THEN Err(DuplicateName(ls[i]))
  ELSE other_checks(ls, es, i + 1)

\* a map without the filter: a Rename for every line
RECURSIVE renames_from_unfiltered(_, _, _, _)
renames_from_unfiltered(ls, dir, es, i) ==
  IF i > Len(ls) THEN <<>>
  ELSE <<Rename(es[i].path, Join(dir, ls[i]))>> \o renames_from_unfiltered(ls, dir, es, i + 1)

\* the filter and map of extract_renames over the lines from index i on
RECURSIVE renames_from(_, _, _, _)
renames_from(ls, dir, es, i) ==
  IF i > Len(ls) THEN <<>>
  ELSE (IF ls[i] # es[i].file_name
        THEN <<Rename(es[i].path, Join(dir, ls[i]))>>
        ELSE <<>>) \o renames_from(ls, dir, es, i + 1)

\* an extraction that looks for duplicate lines before it counts the lines
extract_renames_duplicates_first(edited_text, dir, es) ==
  LET ls == lines(edited_text)
      new_count == Len(ls)
  IN IF \E i, j \in DOMAIN ls : i # j /\ ls[i] = ls[j] /\ ls[i] # <<>>
     THEN Err(DuplicateName(ls[Min({i \in DOMAIN ls : \E j \in DOMAIN ls :
                                     i # j /\ ls[i] = ls[j] /\ ls[i] # <<>>})]))
     ELSE IF new_count # Len(es) THEN Err(EntryCountMismatch(Len(es), new_count))
     ELSE LET checked == other_checks(ls, es, 1) IN
          IF ~checked.ok THEN checked
          ELSE Ok(renames_from(ls, dir, es, 1))

extract_renames(edited_text, dir, es) ==
  LET ls == lines(edited_text)
      new_count == Len(ls)
  IN IF new_count # Len(es) THEN Err(EntryCountMismatch(Len(es), new_count))
     ELSE LET checked == other_checks(ls, es, 1) IN
          IF ~checked.ok THEN checked
          ELSE Ok(renames_from(ls, dir, es, 1))

\* a filter that compares entry i with line i only
RECURSIVE deletions_from_positional(_, _, _)
deletions_from_positional(r, es, i) ==
  IF i > Len(es) THEN <<>>
  ELSE (IF i > Len(r) \/ es[i].file_name # r[i] THEN <<Delete(es[i].path)>> ELSE <<>>)
       \o deletions_from_positional(r, es, i + 1)

\* the filter and map of extract_deletions over the entries from index i on
RECURSIVE deletions_from(_, _, _)
deletions_from(r, es, i) ==
  IF i > Len(es) THEN <<>>
  ELSE (IF es[i].file_name \notin Range(r) THEN <<Delete(es[i].path)>> ELSE <<>>)
       \o deletions_from(r, es, i + 1)

\* an extraction that rejects empty lines as the renames do
extract_deletions_no_empty(edited_text, es) ==
  LET r == lines(edited_text) IN
  IF \E i \in DOMAIN r : r[i] = <<>> THEN Err(EmptyName(<<>>))
  ELSE Ok(deletions_from(r, es, 1))

extract_deletions(edited_text, es) ==
  LET r == lines(edited_text) IN Ok(deletions_from(r, es, 1))

\* ------------------------------------------------------------------------
\* The state of one run of quiren
\* ------------------------------------------------------------------------

VARIABLES
  fs,                \* the directory: path |-> content of the file there
  args,              \* Args: mode, dryrun, trash
  pc,                \* where quiren stands
  entries,           \* the sorted snapshot
  text,              \* the serialized snapshot
  edited,            \* the text the editor returned last
  changes,           \* Vec<Change>
  idx,               \* position of the loop over changes (1-based)
  moved_to_tempfile, \* HashMap<&Path, PathBuf>
  tries,             \* iterations of the loop of tmpfile so far
  result,            \* what quiren returned, once it has
  fs0,               \* history: the directory when the snapshot was taken
  fs1,               \* history: the directory when the loop over changes began
  ops,               \* history: the filesystem calls issued by quiren
  external,          \* history: number of changes made by other processes
  rejections,        \* history: times the confirmation was answered no
  attempts           \* history: sessions the driver has started again

vars == <<fs, args, pc, entries, text, edited, changes, idx, moved_to_tempfile,
          tries, result, fs0, fs1, ops, external, rejections, attempts>>

NoResult == [ok |-> TRUE, val |-> "running"]
Unit == "()"
EmptyMap == [q \in {} |-> <<>>]

\* the content of a file identifies it: a file present at start holds its
\* first name, a file another process creates holds ExternalContent of its
\* first name
ExternalContent(n) == <<"x">> \o n

Directories ==
  {[p \in {Join(Dir, n) : n \in S} |-> FileName(p)] :
     S \in {T \in SUBSET EntryNames : Cardinality(T) <= MaxEntries}}

\* the command lines: --trash only matters to the deletions
ArgsSet ==
  {[mode |-> "Rename", dryrun |-> d, trash |-> FALSE] : d \in BOOLEAN}
  \cup {[mode |-> "Delete", dryrun |-> d, trash |-> t] : d \in BOOLEAN, t \in BOOLEAN}

\* what the editor can return: up to MaxLines lines joined by line feeds,
\* with or without a final line feed
EditedTexts ==
  {concat(ls, <<"LF">>) \o term :
     ls \in UNION {[1..n -> EditorLines] : n \in 0..MaxLines},
     term \in {<<>>, <<"LF">>}}

\* the state when quiren is entered with the arguments a
Entered(a) ==
  /\ fs \in Directories
  /\ args = a
  /\ pc = "start"
  /\ entries = <<>>
  /\ text = <<>>
  /\ edited = <<>>
  /\ changes = <<>>
  /\ idx = 1
  /\ moved_to_tempfile = EmptyMap
  /\ tries = 0
  /\ result = NoResult
  /\ fs0 = fs
  /\ fs1 = fs
  /\ ops = <<>>
  /\ external = 0
  /\ rejections = 0
  /\ attempts = 0

\* without --dry-run
Init == \E a \in ArgsSet : ~a.dryrun /\ Entered(a)

\* in rename mode, without --dry-run
InitRename == \E a \in ArgsSet : ~a.dryrun /\ a.mode = "Rename" /\ Entered(a)

\* a smaller set of names and of editor lines, for the runs with repeated
\* edits, with faults or with repeated sessions
FewNames == {A, B, C}
FewLines == {A, B, C, Empty}
FewTexts ==
  {concat(ls, <<"LF">>) : ls \in UNION {[1..n -> FewLines] : n \in 0..MaxLines}}

\* without --dry-run, on a directory of the smaller set
InitFew ==
  /\ \E a \in ArgsSet : ~a.dryrun /\ Entered(a)
  /\ Names(fs) \subseteq FewNames

\* with --dry-run
InitDryRun ==
  /\ \E a \in ArgsSet : a.dryrun /\ Entered(a)
  /\ Names(fs) \subseteq FewNames

\* ------------------------------------------------------------------------
\* quiren, lines 102-111: the snapshot
\* ------------------------------------------------------------------------

Snapshot ==
  /\ pc = "start"
  /\ \E listed \in read_dir(fs) :
       /\ entries' = sort_by_key(listed)
       /\ text' = serialize(sort_by_key(listed))
  /\ fs0' = fs
  /\ pc' = "edit"
  /\ UNCHANGED <<fs, args, edited, changes, idx, moved_to_tempfile, tries, result,
                 fs1, ops, external,
                 rejections, attempts>>

\* ------------------------------------------------------------------------
\* Other processes, while quiren waits for the editor
\* ------------------------------------------------------------------------

ExternalCreate ==
  /\ pc = "edit"
  /\ external < MaxExternal
  /\ \E n \in EntryNames :
       /\ ~Exists(fs, Join(Dir, n))
       /\ fs' = [q \in DOMAIN fs \cup {Join(Dir, n)} |->
                   IF q = Join(Dir, n) THEN ExternalContent(n) ELSE fs[q]]
  /\ external' = external + 1
  /\ UNCHANGED <<args, pc, entries, text, edited, changes, idx, moved_to_tempfile,
                 tries, result, fs0, fs1, ops,
                 rejections, attempts>>

ExternalRemove ==
  /\ pc = "edit"
  /\ external < MaxExternal
  /\ \E p \in DOMAIN fs : fs' = Without(fs, p)
  /\ external' = external + 1
  /\ UNCHANGED <<args, pc, entries, text, edited, changes, idx, moved_to_tempfile,
                 tries, result, fs0, fs1, ops,
                 rejections, attempts>>

\* ------------------------------------------------------------------------
\* quiren, lines 113-136: the editor returns, the changes are extracted
\* ------------------------------------------------------------------------

\* a clear that keeps the list
clear_nothing(chs) == chs

\* line 129: changes.clear()
clear(chs) == <<>>

\* a failure that is skipped: the loop goes on with the next change
Fail_Skipped(e) ==
  /\ pc' = "apply"
  /\ result' = result
  /\ idx' = idx + 1

\* return Err(e) out of the loop over the changes
Fail(e) ==
  /\ pc' = "failed"
  /\ result' = Err(e)
  /\ idx' = idx

\* an extraction whose error is dropped: the list built before stays
Extracted_Lenient(extracted) ==
  /\ changes' = IF extracted.ok THEN extracted.val ELSE changes
  /\ pc' = IF args.dryrun THEN "confirm" ELSE "apply"
  /\ result' = result

\* changes.clear(); changes.extend(extracted?) and what follows it
Extracted(extracted) ==
  IF extracted.ok
  THEN /\ changes' = clear(changes) \o extracted.val
       /\ pc' = IF args.dryrun THEN "confirm" ELSE "apply"
       /\ result' = result
  ELSE /\ changes' = <<>>
       /\ pc' = "failed"
       /\ result' = extracted

\* lines 113-118 and 128-132 in rename mode, the editor returning one of texts
EditRenamesFrom(texts) ==
  /\ pc = "edit"
  /\ args.mode = "Rename"
  /\ \E t \in texts :
       /\ edited' = t
       /\ Extracted(extract_renames(t, Dir, entries))
  /\ idx' = 1
  /\ fs1' = fs
  /\ UNCHANGED <<fs, args, entries, text, moved_to_tempfile, tries, fs0, ops, external,
                 rejections, attempts>>

EditRenames == EditRenamesFrom(EditedTexts)

\* lines 113-119 and 128-133 in delete mode, the editor returning one of texts
EditDeletionsFrom(texts) ==
  /\ pc = "edit"
  /\ args.mode = "Delete"
  /\ \E t \in texts :
       /\ edited' = t
       /\ Extracted(extract_deletions(t, entries))
  /\ idx' = 1
  /\ fs1' = fs
  /\ UNCHANGED <<fs, args, entries, text, moved_to_tempfile, tries, fs0, ops, external,
                 rejections, attempts>>

EditDeletions == EditDeletionsFrom(EditedTexts)

\* confirm_changes: no question is asked when there is nothing to do
confirm_changes(chs, answer) == IF chs = <<>> THEN TRUE ELSE answer

\* lines 122-127: the loop of --dry-run up to the next call of the editor
Confirm ==
  /\ pc = "confirm"
  /\ \E answer \in BOOLEAN :
       IF confirm_changes(changes, answer)
       THEN /\ pc' = "apply"
            /\ rejections' = rejections
       ELSE /\ rejections < MaxRejections
            /\ pc' = "edit"
            /\ rejections' = rejections + 1
  /\ UNCHANGED <<fs, args, entries, text, edited, changes, idx, moved_to_tempfile,
                 tries, result, fs0, fs1, ops, external, attempts>>

\* ------------------------------------------------------------------------
\* quiren, lines 138-181: the loop over the changes
\* ------------------------------------------------------------------------

\* a search that also finds b among the destinations
b_in_changes_any_path(chs, b) ==
  \E k \in DOMAIN chs : chs[k].from = b \/ chs[k].to = b

\* "Check if `b` will also be renamed or deleted"
b_in_changes(chs, b) == \E k \in DOMAIN chs : chs[k].from = b

\* an insert that records nothing
Insert_Forgotten(m, b, aux) == m

\* moved_to_tempfile.insert(b, aux)
Insert(m, b, aux) == [q \in DOMAIN m \cup {b} |-> IF q = b THEN aux ELSE m[q]]

\* a lookup that forgets the map
Source_NoLookup(m, a) == a

\* "Check if `a` was moved to an auxiliary tempfile"
Source(m, a) == IF a \in DOMAIN m THEN m[a] ELSE a

\* history records of the calls: what was asked, whether the source was
\* there (ok), which file it was (what) and whether the target held a file
OpRename(fsys, from, to) ==
  [op |-> "rename", from |-> from, to |-> to, ok |-> Exists(fsys, from),
   what |-> IF Exists(fsys, from) THEN fsys[from] ELSE <<>>,
   onto |-> Exists(fsys, to)]
OpRemove(fsys, kind, path) ==
  [op |-> kind, from |-> path, to |-> <<>>, ok |-> Exists(fsys, path),
   what |-> IF Exists(fsys, path) THEN fsys[path] ELSE <<>>,
   onto |-> FALSE]

\* lines 167-174: fs::rename(a, b)? with the source looked up, from the
\* directory fsys, the map m and the calls issued so far
FinishRename(fsys, m, issued) ==
  LET a == Source(m, changes[idx].from)
      b == changes[idx].to
      r == fs_rename(fsys, a, b)
  IN /\ fs' = r.fs
     /\ moved_to_tempfile' = m
     /\ ops' = Append(issued, OpRename(fsys, a, b))
     /\ IF r.ok
        THEN /\ idx' = idx + 1
             /\ pc' = "apply"
             /\ result' = result
        ELSE Fail(IoError)

\* lines 144-165 and, when nothing is at b, 167-174
ApplyRename ==
  /\ pc = "apply"
  /\ idx <= Len(changes)
  /\ changes[idx].tag = "Rename"
  /\ LET a == changes[idx].from
         b == changes[idx].to
     IN IF Exists(fs, b)
        THEN /\ IF ~b_in_changes(changes, b)
                THEN Fail(Overwrite(a, b))
                ELSE /\ pc' = "tmpfile"
                     /\ UNCHANGED <<idx, result>>
             /\ UNCHANGED <<fs, moved_to_tempfile, ops>>
        ELSE FinishRename(fs, moved_to_tempfile, ops)
  /\ tries' = 0
  /\ UNCHANGED <<args, entries, text, edited, changes, fs0, fs1, external,
                 rejections, attempts>>

\* a generator that does not look at the directory
is_free_unchecked(fsys, path) == TRUE

\* util.rs line 32: if !path.exists()
is_free(fsys, path) == ~Exists(fsys, path)

\* util.rs tmpfile: one iteration that generates the name of an existing file
TmpfileRetry ==
  /\ pc = "tmpfile"
  /\ tries < TEMPFILE_MAX_RETRIES
  /\ \E buf \in RandNames : ~is_free(fs, Join(Parent(changes[idx].to), buf))
  /\ tries' = tries + 1
  /\ UNCHANGED <<fs, args, pc, entries, text, edited, changes, idx, moved_to_tempfile,
                 result, fs0, fs1, ops, external,
                 rejections, attempts>>

\* a loop that gives up at the first name that is taken
TmpfileExhausted_FirstCollision ==
  /\ pc = "tmpfile"
  /\ tries >= 1
  /\ Fail(Tempfile)
  /\ UNCHANGED <<fs, args, entries, text, edited, changes, moved_to_tempfile, tries,
                 fs0, fs1, ops, external, rejections, attempts>>

\* util.rs tmpfile: the loop ends without a free name
TmpfileExhausted ==
  /\ pc = "tmpfile"
  /\ tries = TEMPFILE_MAX_RETRIES
  /\ Fail(Tempfile)
  /\ UNCHANGED <<fs, args, entries, text, edited, changes, moved_to_tempfile, tries,
                 fs0, fs1, ops, external,
                 rejections, attempts>>

\* util.rs tmpfile returns a free path; then lines 163-174
TmpfileReturn ==
  /\ pc = "tmpfile"
  /\ tries < TEMPFILE_MAX_RETRIES
  /\ \E buf \in RandNames :
       LET b == changes[idx].to
           aux == Join(Parent(b), buf)
           r == fs_rename(fs, b, aux)
       IN /\ is_free(fs, aux)
          /\ IF r.ok
             THEN FinishRename(r.fs, Insert(moved_to_tempfile, b, aux),
                               Append(ops, OpRename(fs, b, aux)))
             ELSE /\ Fail(IoError)
                  /\ ops' = Append(ops, OpRename(fs, b, aux))
                  /\ UNCHANGED <<fs, moved_to_tempfile>>
  /\ UNCHANGED <<args, entries, text, edited, changes, tries, fs0, fs1, external,
                 rejections, attempts>>

\* lines 176-177
ApplyDelete ==
  /\ pc = "apply"
  /\ idx <= Len(changes)
  /\ changes[idx].tag = "Delete"
  /\ LET a == changes[idx].from
         r == fs_remove(fs, a)
     IN /\ fs' = r.fs
        /\ ops' = Append(ops, OpRemove(fs, IF args.trash THEN "trash" ELSE "remove", a))
        /\ IF r.ok
           THEN /\ idx' = idx + 1
                /\ UNCHANGED <<pc, result>>
           ELSE Fail(IF args.trash THEN TrashError ELSE IoError)
  /\ UNCHANGED <<args, entries, text, edited, changes, moved_to_tempfile, tries,
                 fs0, fs1, external,
                 rejections, attempts>>

\* line 181: Ok(())
Return ==
  /\ pc = "apply"
  /\ idx > Len(changes)
  /\ pc' = "done"
  /\ result' = Ok(Unit)
  /\ UNCHANGED <<fs, args, entries, text, edited, changes, idx, moved_to_tempfile,
                 tries, fs0, fs1, ops, external,
                 rejections, attempts>>

\* ------------------------------------------------------------------------
\* main, lines 67-78: --retry
\* ------------------------------------------------------------------------

\* a call of quiren that finds the redirect map of the call before
NewCall_KeepsMap ==
  /\ pc' = "start"
  /\ entries' = <<>>
  /\ text' = <<>>
  /\ edited' = <<>>
  /\ changes' = <<>>
  /\ idx' = 1
  /\ moved_to_tempfile' = moved_to_tempfile
  /\ tries' = 0
  /\ result' = NoResult

\* quiren is called: its locals are new
NewCall ==
  /\ pc' = "start"
  /\ entries' = <<>>
  /\ text' = <<>>
  /\ edited' = <<>>
  /\ changes' = <<>>
  /\ idx' = 1
  /\ moved_to_tempfile' = EmptyMap
  /\ tries' = 0
  /\ result' = NoResult

\* while let Err(err) = quiren(..): the error is printed, a key is read and
\* quiren is called again with the same directory and arguments
Retry ==
  /\ pc = "failed"
  /\ attempts < MaxAttempts
  /\ attempts' = attempts + 1
  /\ NewCall
  /\ fs0' = fs
  /\ fs1' = fs
  /\ ops' = <<>>
  /\ rejections' = 0
  /\ UNCHANGED <<fs, args, external>>

\* quiren without --dry-run, alone with the directory
Next ==
  \/ Snapshot
  \/ EditRenames
  \/ EditDeletions
  \/ ApplyRename
  \/ TmpfileRetry
  \/ TmpfileExhausted
  \/ TmpfileReturn
  \/ ApplyDelete
  \/ Return

Spec == Init /\ [][Next]_vars

\* quiren in rename mode while other processes change the directory during
\* the edit
NextOpen ==
  \/ Snapshot
  \/ ExternalCreate
  \/ ExternalRemove
  \/ EditRenames
  \/ ApplyRename
  \/ TmpfileRetry
  \/ TmpfileExhausted
  \/ TmpfileReturn
  \/ Return

SpecOpen == InitRename /\ [][NextOpen]_vars

\* the editor returning a text of the smaller set
EditRenamesFew == EditRenamesFrom(FewTexts)
EditDeletionsFew == EditDeletionsFrom(FewTexts)

\* quiren with --dry-run
NextDryRun ==
  \/ Snapshot
  \/ EditRenamesFew
  \/ EditDeletionsFew
  \/ Confirm
  \/ ApplyRename
  \/ TmpfileRetry
  \/ TmpfileExhausted
  \/ TmpfileReturn
  \/ ApplyDelete
  \/ Return

SpecDryRun == InitDryRun /\ [][NextDryRun]_vars

\* quiren in either mode while other processes change the directory during
\* the edit, so that renames and deletions can fail
NextFaults ==
  \/ Snapshot
  \/ ExternalCreate
  \/ ExternalRemove
  \/ EditRenamesFew
  \/ EditDeletionsFew
  \/ ApplyRename
  \/ TmpfileRetry
  \/ TmpfileExhausted
  \/ TmpfileReturn
  \/ ApplyDelete
  \/ Return

SpecFaults == InitFew /\ [][NextFaults]_vars

\* quiren under --retry
NextRetry ==
  \/ Snapshot
  \/ ExternalCreate
  \/ ExternalRemove
  \/ EditRenamesFew
  \/ EditDeletionsFew
  \/ ApplyRename
  \/ TmpfileRetry
  \/ TmpfileExhausted
  \/ TmpfileReturn
  \/ ApplyDelete
  \/ Return
  \/ Retry

SpecRetry == InitFew /\ [][NextRetry]_vars

\* ------------------------------------------------------------------------
\* Vocabulary of the properties
\* ------------------------------------------------------------------------

\* the edited listing, as quiren parses it
Listing == lines(edited)

\* the names of the snapshot
SnapshotNames == {entries[k].file_name : k \in DOMAIN entries}

\* the editor has returned and the extraction has run
Extraction == pc \notin {"start", "edit"}

\* the extraction has failed
ExtractionFailed ==
  /\ pc = "failed"
  /\ result.val.kind \in {"EmptyName", "DuplicateName", "EntryCountMismatch"}

\* the extraction has returned a list of changes
Validated == Extraction /\ ~ExtractionFailed

\* no name the generator of tmpfile can produce is a name of the snapshot or
\* a line of the edited listing
AuxNamesApart ==
  LET ls == Listing IN
  \A n \in RandNames : n \notin SnapshotNames /\ \A k \in DOMAIN ls : ls[k] # n

\* the paths of the directory that hold the content c
PathsOf(fsys, c) == {q \in DOMAIN fsys : fsys[q] = c}

\* the number of elements of the set of indices S that are at most i
RankIn(S, i) == Cardinality({j \in S : j <= i})

\* ------------------------------------------------------------------------
\* C1
\* ------------------------------------------------------------------------

\* C1: in rename mode, with nobody else changing the directory and no
\* generated name among the snapshot names or the edited lines, a run on a
\* validated listing never ends with Overwrite (nor with an I/O error: the
\* only failure left is the exhaustion of tmpfile), and when it has ended
\* successfully the content first found at the name of entry i is at the
\* path of edited line i, for every index i.
C1_CycleSafety ==
  (args.mode = "Rename" /\ external = 0 /\ Validated /\ AuxNamesApart) =>
     /\ pc = "failed" => result.val.kind = "Tempfile"
     /\ pc = "done" =>
          LET ls == Listing IN
          \A i \in DOMAIN entries :
             LET p == Join(Dir, ls[i]) IN
             /\ Exists(fs, p)
             /\ fs[p] = fs0[entries[i].path]

\* a rotation a -> b -> c -> a has been applied to the end
C1_Witness ==
  /\ args.mode = "Rename"
  /\ pc = "done"
  /\ [k \in DOMAIN entries |-> entries[k].file_name] = <<A, B, C>>
  /\ Listing = <<B, C, A>>
  /\ fs[Join(Dir, A)] = C
  /\ Len(ops) = 5

\* ------------------------------------------------------------------------
\* C2
\* ------------------------------------------------------------------------

RenamedOntoUnchanged ==
  /\ args.mode = "Rename"
  /\ Extraction
  /\ LET ls == Listing IN
     /\ Len(ls) = Len(entries)
     /\ \E i, j \in DOMAIN entries :
          i # j /\ ls[j] = entries[j].file_name /\ ls[i] = entries[j].file_name

\* the case of the claim: entries a, b and the edited lines b, b
LinesBB ==
  /\ args.mode = "Rename"
  /\ Extraction
  /\ [k \in DOMAIN entries |-> entries[k].file_name] = <<A, B>>
  /\ Listing = <<B, B>>

\* C3 as stated: with entries a, b and edited lines b, b the run fails with
\* Overwrite(a, b) and neither file is touched.
C3_AsStated ==
  LinesBB =>
     /\ pc = "failed"
     /\ result.val.kind = "Overwrite"
     /\ fs = fs0

\* C3 as amended: renaming an entry to the name of an entry whose own line
\* is unchanged makes two lines identical, so the extraction fails (with
\* DuplicateName(b) for entries a, b and lines b, b; never with Overwrite),
\* no filesystem call is issued and the directory is as it was.
C3_DuplicateNotOverwrite ==
  /\ RenamedOntoUnchanged =>
       /\ pc = "failed"
       /\ result.val.kind \in {"DuplicateName", "EmptyName"}
       /\ ops = <<>>
       /\ external = 0 => fs = fs0
  /\ LinesBB => result.val = DuplicateName(B)

C3_Witness ==
  /\ LinesBB
  /\ pc = "failed"
  /\ DOMAIN fs = {Join(Dir, A), Join(Dir, B)}

\* ------------------------------------------------------------------------
\* C4
\* ------------------------------------------------------------------------

\* the loop is about to process a Rename whose destination holds a file and
\* is the source of no change
Blocked ==
  /\ pc = "apply"
  /\ idx <= Len(changes)
  /\ changes[idx].tag = "Rename"
  /\ Exists(fs, changes[idx].to)
  /\ \A k \in DOMAIN changes : changes[k].from # changes[idx].to

\* change k has been applied: the file its source held when the loop began
\* is at its destination
Applied(k) ==
  /\ Exists(fs, changes[k].to)
  /\ Exists(fs1, changes[k].from)
  /\ fs[changes[k].to] = fs1[changes[k].from]

\* C4: when the loop reaches a Rename{from, to} whose `to` holds a file and
\* is the source of no change, the step ends the run with Overwrite(from, to)
\* and does nothing else: no call is issued, no auxiliary path recorded, the
\* directory is unchanged, so nothing done for the changes before it is
\* undone (when nobody else changed the directory, each of their files is at
\* its destination); the loop stays at this change and no step follows the
\* failure, so that no change after it is ever processed.
C4_OverwriteStops ==
  [][ /\ Blocked =>
          /\ pc' = "failed"
          /\ result'.val = Overwrite(changes[idx].from, changes[idx].to)
          /\ fs' = fs /\ ops' = ops /\ moved_to_tempfile' = moved_to_tempfile
          /\ changes' = changes /\ idx' = idx
          /\ external = 0 => \A k \in 1..(idx - 1) : Applied(k)'
      /\ pc = "failed" => UNCHANGED vars
    ]_vars

\* a file that appeared after the snapshot has stopped the second change
C4_Witness ==
  /\ pc = "failed"
  /\ result.val.kind = "Overwrite"
  /\ external = 1
  /\ idx = 2
  /\ FileName(changes[idx].to) \notin SnapshotNames
  /\ Len(ops) = 1

\* ------------------------------------------------------------------------
\* C5
\* ------------------------------------------------------------------------

\* the indices of the empty lines and of the lines equal to another line
EmptyLines == LET ls == Listing IN {i \in DOMAIN ls : ls[i] = <<>>}
DuplicatedLines ==
  LET ls == Listing IN {i \in DOMAIN ls : \E j \in DOMAIN ls : i # j /\ ls[i] = ls[j]}

\* a listing of the right length with an empty line and two identical lines
EmptyAndDuplicate ==
  /\ args.mode = "Rename"
  /\ Extraction
  /\ Len(Listing) = Len(entries)
  /\ EmptyLines # {}
  /\ DuplicatedLines # {}

\* C5 as stated: a listing of the right length that holds an empty line and
\* two identical lines fails with EmptyName of the entry at an empty line,
\* not with DuplicateName, wherever these lines stand.
C5_AsStated ==
  EmptyAndDuplicate =>
     /\ pc = "failed"
     /\ result.val.kind = "EmptyName"
     /\ \E i \in EmptyLines : result.val.a = to_string_lossy(entries[i].file_name)

\* C5 as amended: the lines are checked one after the other, each for
\* emptiness and then for a twin, and the first offending line decides: the
\* listing fails with EmptyName(name of entry i, lossily decoded) when the
\* first empty line i has no duplicated line before it, and with
\* DuplicateName(line j) for the first duplicated line j otherwise.
C5_FirstOffendingLine ==
  EmptyAndDuplicate =>
     /\ pc = "failed"
     /\ LET ls == Listing
            i == Min(EmptyLines)
            j == Min(DuplicatedLines)
        IN IF i <= j
           THEN result.val = EmptyName(to_string_lossy(entries[i].file_name))
           ELSE result.val = DuplicateName(ls[j])

\* both outcomes: two empty lines in front, and an empty line behind two
\* identical names
C5_Witness ==
  /\ EmptyAndDuplicate
  /\ Len(Listing) = 3
  /\ Listing[1] = <<>> /\ Listing[2] = <<>>
  /\ result.val.kind = "EmptyName"

C5_WitnessDuplicate ==
  /\ EmptyAndDuplicate
  /\ Listing = <<A, A, <<>>>>
  /\ result.val.kind = "DuplicateName"

\* ------------------------------------------------------------------------
\* C6
\* ------------------------------------------------------------------------

\* C6: in rename mode a listing whose number of lines differs from the
\* number of entries fails with EntryCountMismatch(entries, lines), also
\* when it holds empty or identical lines, and nothing is done.
C6_CountFirst ==
  (args.mode = "Rename" /\ Extraction /\ Len(Listing) # Len(entries)) =>
     /\ pc = "failed"
     /\ result.val.kind = "EntryCountMismatch"
     /\ result.val.a = Len(entries)
     /\ result.val.b = Len(Listing)
     /\ ops = <<>>

\* a listing that is too long and holds both an empty line and a twin
C6_Witness ==
  /\ args.mode = "Rename"
  /\ pc = "failed"
  /\ Len(entries) = 2
  /\ Len(Listing) = 3
  /\ EmptyLines # {}
  /\ \E i \in DuplicatedLines : Listing[i] # <<>>

\* ------------------------------------------------------------------------
\* C7
\* ------------------------------------------------------------------------

\* delete mode, entries a, b, c, and a listing of two lines without b
DroppedB ==
  /\ args.mode = "Delete"
  /\ Extraction
  /\ [k \in DOMAIN entries |-> entries[k].file_name] = <<A, B, C>>
  /\ Len(Listing) = 2
  /\ B \notin Range(Listing)

\* C7 as stated: whatever the two remaining lines hold, the changes are
\* exactly one Delete, of b.
C7_AsStated == DroppedB => changes = <<Delete(Join(Dir, B))>>

\* C7 as amended: the changes hold a Delete of b, and a Delete of a (of c)
\* exactly when no line equals a (c): an edit of the text of a line deletes
\* the entry whose name it removes.  With the lines a and c kept as they
\* are, in either order, the changes are exactly one Delete, of b.
C7_EditedLineDeletes ==
  DroppedB =>
     /\ \E k \in DOMAIN changes : changes[k] = Delete(Join(Dir, B))
     /\ \A n \in {A, C} :
          (\E k \in DOMAIN changes : changes[k] = Delete(Join(Dir, n)))
             <=> n \notin Range(Listing)
     /\ Range(Listing) = {A, C} => changes = <<Delete(Join(Dir, B))>>

\* the lines of a and c kept, in the other order
C7_Witness ==
  /\ DroppedB
  /\ Listing = <<C, A>>
  /\ Len(changes) = 1

\* ------------------------------------------------------------------------
\* C8
\* ------------------------------------------------------------------------

\* the indices of the entries whose name is no line of the listing
Absent ==
  LET ls == Listing IN
  {i \in DOMAIN entries : \A k \in DOMAIN ls : ls[k] # entries[i].file_name}

\* C8: in delete mode the extraction never fails, and the changes are one
\* Delete for each entry whose name is no line of the listing, in the order
\* of the snapshot, and nothing else.
C8_DeletionsByAbsence ==
  (args.mode = "Delete" /\ Extraction) =>
     /\ ~ExtractionFailed
     /\ LET absent == Absent IN
        /\ Len(changes) = Cardinality(absent)
        /\ \A i \in absent : changes[RankIn(absent, i)] = Delete(entries[i].path)

\* a listing longer than the snapshot, with an empty line and a twin, in
\* another order than the snapshot
C8_Witness ==
  /\ args.mode = "Delete"
  /\ pc = "done"
  /\ Len(entries) = 2
  /\ Listing = <<entries[2].file_name, <<>>, entries[2].file_name>>
  /\ Len(changes) = 1

\* ------------------------------------------------------------------------
\* C9
\* ------------------------------------------------------------------------

\* the indices whose line differs from the name of the entry
Modified == LET ls == Listing IN {i \in DOMAIN entries : ls[i] # entries[i].file_name}

\* C9: in rename mode the changes of a validated listing are one Rename for
\* each index whose line differs from the name of the entry, from the path
\* of the entry to the directory joined with the line, in ascending order
\* of the index, and nothing else.
C9_RenamesByIndex ==
  (args.mode = "Rename" /\ Validated) =>
     LET ls == Listing IN
     /\ Len(ls) = Len(entries)
     /\ LET modified == Modified IN
        /\ Len(changes) = Cardinality(modified)
        /\ \A i \in modified :
             changes[RankIn(modified, i)] = Rename(entries[i].path, Dir \o <<"/">> \o ls[i])

\* three entries, the second line unchanged
C9_Witness ==
  /\ args.mode = "Rename"
  /\ Validated
  /\ Len(entries) = 3
  /\ Modified = {1, 3}
  /\ Len(changes) = 2

\* ------------------------------------------------------------------------
\* C10
\* ------------------------------------------------------------------------

\* the calls that moved the content c, and those that moved it to a
\* generated name
MovesOf(c) == {k \in DOMAIN ops : ops[k].ok /\ ops[k].what = c}
DisplacementsOf(c) == {k \in MovesOf(c) : FileName(ops[k].to) \in RandNames}

\* C10: in rename mode, with nobody else changing the directory and no
\* generated name among the snapshot names or the edited lines, every file
\* is moved to an auxiliary path at most once and renamed at most twice, no
\* auxiliary path of the map is itself a key of the map, and after a
\* successful end no auxiliary file is left: the names of the directory are
\* the edited lines.
C10_SingleHop ==
  (args.mode = "Rename" /\ external = 0 /\ Validated /\ AuxNamesApart) =>
     /\ \A p \in DOMAIN fs0 :
          /\ Cardinality(DisplacementsOf(fs0[p])) <= 1
          /\ Cardinality(MovesOf(fs0[p])) <= 2
     /\ \A q \in DOMAIN moved_to_tempfile :
          moved_to_tempfile[q] \notin DOMAIN moved_to_tempfile
     /\ pc = "done" =>
          /\ Names(fs) \cap RandNames = {}
          /\ Names(fs) = Range(Listing)

\* a rotation has ended after two files went through an auxiliary path
C10_Witness ==
  /\ args.mode = "Rename"
  /\ pc = "done"
  /\ AuxNamesApart
  /\ Len(entries) = 3
  /\ Cardinality({p \in DOMAIN fs0 : Cardinality(MovesOf(fs0[p])) = 2}) = 2
  /\ Cardinality(DOMAIN moved_to_tempfile) = 2

\* ------------------------------------------------------------------------
\* C11
\* ------------------------------------------------------------------------

\* what the extraction of the mode returns for the text the editor
\* returned last
ExtractionOfEdited ==
  IF args.mode = "Rename" THEN extract_renames(edited, Dir, entries)
  ELSE extract_deletions(edited, entries)

\* C11: when the extraction of the text the editor returned, on the first
\* edit or on an edit after a rejected confirmation, fails with EmptyName,
\* DuplicateName or EntryCountMismatch, the run has ended with that error
\* and takes no further step; the directory is as it was when the snapshot
\* was taken: no rename, no delete, no auxiliary path.
C11_CleanFailure ==
  LET extracted == ExtractionOfEdited IN
  /\ (Extraction /\ ~extracted.ok) =>
        /\ pc = "failed"
        /\ result = extracted
        /\ result.val.kind \in {"EmptyName", "DuplicateName", "EntryCountMismatch"}
        /\ fs = fs0
        /\ ops = <<>>
        /\ moved_to_tempfile = EmptyMap
        /\ ~ENABLED NextDryRun
  /\ ExtractionFailed => ~extracted.ok

\* the second edit after a rejection holds two identical lines
C11_Witness ==
  /\ ExtractionFailed
  /\ rejections = 1
  /\ result.val.kind = "DuplicateName"
  /\ Len(entries) = 2
  /\ DOMAIN fs = {Join(Dir, A), Join(Dir, B)}

\* ------------------------------------------------------------------------
\* C12
\* ------------------------------------------------------------------------

\* the run has not passed the confirmation yet
Unconfirmed == pc \in {"start", "edit", "confirm"}

\* the confirmation is answered no in this step
Rejected == pc = "confirm" /\ pc' = "edit"

\* C12: with --dry-run, as long as the confirmation has not returned yes
\* (which it does unasked for an empty list) the directory is as it was and
\* no call has been issued; a rejection leads back to the editor with the
\* text edited before, the snapshot and the directory as they were; the
\* snapshot never changes after it was taken; and whenever a list of
\* changes is shown or applied, after any number of rejections, it is the
\* extraction of the text edited last from that snapshot, nothing more.
C12_DryRunRebuilds ==
  /\ [](Unconfirmed => fs = fs0 /\ ops = <<>> /\ moved_to_tempfile = EmptyMap)
  /\ []((Extraction /\ pc # "failed") =>
          (ExtractionOfEdited.ok /\ changes = ExtractionOfEdited.val))
  /\ [][ /\ Rejected =>
             /\ changes # <<>>
             /\ edited' = edited
             /\ entries' = entries
             /\ fs' = fs
             /\ rejections' = rejections + 1
         /\ pc # "start" => entries' = entries /\ text' = text
       ]_vars

\* two lists were rejected, and the single rename of the third edit has
\* been applied
C12_Witness ==
  /\ args.mode = "Rename"
  /\ pc = "done"
  /\ rejections = 2
  /\ Len(entries) = 2
  /\ changes = <<Rename(Join(Dir, B), Join(Dir, C))>>
  /\ Len(ops) = 1
  /\ fs # fs0

\* ------------------------------------------------------------------------
\* C13
\* ------------------------------------------------------------------------

\* the editor returned the text it was given
NothingEdited == Extraction /\ edited = text

\* C13: when the edited text equals the serialized snapshot, the extraction
\* yields no change in rename mode and in delete mode, and the run ends
\* successfully with the directory unchanged.
C13_Identity ==
  NothingEdited =>
     /\ changes = <<>>
     /\ pc # "failed"
     /\ ops = <<>>
     /\ fs = fs0

\* ------------------------------------------------------------------------
\* C14
\* ------------------------------------------------------------------------

\* the indices of the entries that are the source of no change
Unchanged ==
  {k \in DOMAIN entries : \A i \in DOMAIN changes : changes[i].from # entries[k].path}

\* C14: in rename mode a listing with the right number of lines, none of
\* them empty, two of them identical, fails with DuplicateName of the first
\* line that has a twin and nothing is done; hence in every list of changes
\* the extraction returns the destinations are pairwise distinct and none
\* is the path of an entry of the snapshot that has no change.
C14_NoDuplicateTargets ==
  /\ (args.mode = "Rename" /\ Extraction /\ Len(Listing) = Len(entries)
        /\ EmptyLines = {} /\ DuplicatedLines # {}) =>
        /\ pc = "failed"
        /\ result.val = DuplicateName(Listing[Min(DuplicatedLines)])
        /\ ops = <<>>
  /\ (args.mode = "Rename" /\ Validated) =>
        /\ \A i, j \in DOMAIN changes : i # j => changes[i].to # changes[j].to
        /\ \A k \in Unchanged : \A i \in DOMAIN changes :
              changes[i].to # entries[k].path

\* twins that are not neighbours, one of them the unchanged line of its
\* entry
C14_Witness ==
  /\ args.mode = "Rename"
  /\ pc = "failed"
  /\ [k \in DOMAIN entries |-> entries[k].file_name] = <<A, B, C>>
  /\ Listing = <<C, A, C>>
  /\ result.val = DuplicateName(C)

\* ------------------------------------------------------------------------
\* C15
\* ------------------------------------------------------------------------

\* the steps of tmpfile(parent of b) for the change at idx: a generated name
\* that is taken, the end of the loop, a generated name that is free
NameTaken ==
  /\ tries < TEMPFILE_MAX_RETRIES
  /\ \E n \in RandNames : Exists(fs, Join(Parent(changes[idx].to), n))
  /\ tries' = tries + 1
  /\ pc' = "tmpfile"
  /\ fs' = fs /\ ops' = ops /\ moved_to_tempfile' = moved_to_tempfile
GivenUp ==
  /\ tries = TEMPFILE_MAX_RETRIES
  /\ pc' = "failed"
  /\ result' = Err(Tempfile)
  /\ fs' = fs /\ ops' = ops /\ moved_to_tempfile' = moved_to_tempfile
  /\ Exists(fs', changes[idx].to)
NameFree ==
  /\ tries < TEMPFILE_MAX_RETRIES
  /\ \E n \in RandNames :
       LET b == changes[idx].to
           aux == Join(Parent(b), n)
       IN /\ Len(n) = TEMPFILE_NAME_LENGTH
          /\ ~Exists(fs, aux)
          /\ Len(ops') > Len(ops)
          /\ ops'[Len(ops) + 1].from = b /\ ops'[Len(ops) + 1].to = aux
          /\ moved_to_tempfile'[b] = aux

\* C15: tmpfile makes at most 20 attempts; each attempt but the last one
\* made generated a name that is present in the directory; it returns a
\* generated name of 8 characters, joined to the directory, that is not
\* present when it is checked, and the file to displace is renamed to it;
\* it fails with Tempfile exactly after 20 names that were all present, and
\* then nothing has been renamed in this step: the file to displace is
\* where it was.
C15_Tmpfile ==
  /\ [](tries \in 0..TEMPFILE_MAX_RETRIES)
  /\ []((pc = "failed" /\ result.val.kind = "Tempfile") =>
          (tries = TEMPFILE_MAX_RETRIES /\ Exists(fs, changes[idx].to)))
  /\ [][pc = "tmpfile" => (NameTaken \/ GivenUp \/ NameFree)]_vars

\* the 20th name was taken as well, with one file parked before
C15_Witness ==
  /\ pc = "failed"
  /\ result.val.kind = "Tempfile"
  /\ tries = TEMPFILE_MAX_RETRIES
  /\ Len(ops) = 2
  /\ Cardinality(DOMAIN moved_to_tempfile) = 1

\* ------------------------------------------------------------------------
\* C16
\* ------------------------------------------------------------------------

\* the loop over the changes is running
Applying == pc \in {"apply", "tmpfile"}

\* the calls issued in this step
NewOps == {n \in DOMAIN ops' : n > Len(ops)}

\* the call o serves the change c: for a Rename the displacement of the
\* file at the destination or the rename onto the destination, for a Delete
\* the removal of its path, by the means --trash selects
Serves(o, c) ==
  IF c.tag = "Rename"
  THEN /\ o.op = "rename"
       /\ \/ o.to = c.to
          \/ o.from = c.to /\ FileName(o.to) \in RandNames
  ELSE /\ o.op = (IF args.trash THEN "trash" ELSE "remove")
       /\ o.from = c.from

\* the effect of the change c is there
Done(fsys, c) ==
  IF c.tag = "Rename" THEN Exists(fsys, c.to) ELSE ~Exists(fsys, c.from)

\* C16: the loop takes the changes in the order of the list, each at most
\* once: a step keeps the list and the calls issued before, issues calls
\* for the change at the position of the loop only, and moves the position
\* by one exactly when it neither fails nor waits for an auxiliary name.
\* When a call fails, when the destination is taken by a file that is no
\* source, or when no auxiliary name is found, the step ends the run with
\* that error and the position stays: no step follows, so nothing is
\* rolled back and no later change is executed; with nobody else changing
\* the directory the effects of all changes before it are in place.
C16_InOrderUntilFailure ==
  /\ [](Applying => idx \in 1..(Len(changes) + 1))
  /\ [][ /\ Applying =>
             /\ changes' = changes
             /\ SubSeq(ops', 1, Len(ops)) = ops
             /\ \A n \in NewOps : Serves(ops'[n], changes[idx])
             /\ idx' \in {idx, idx + 1}
             /\ idx' = idx + 1 <=> (idx <= Len(changes) /\ pc' = "apply")
             /\ (\E n \in NewOps : ~ops'[n].ok) => pc' = "failed"
             /\ pc' = "failed" =>
                  /\ idx' = idx
                  /\ ~result'.ok
                  /\ result'.val.kind \in
                       {"IoError", "TrashError", "Overwrite", "Tempfile"}
                  /\ \A n \in NewOps : n < Len(ops') => ops'[n].ok
                  /\ external = 0 =>
                       \A k \in 1..(idx - 1) : Done(fs', changes[k])
         /\ pc = "failed" => UNCHANGED vars
       ]_vars

\* the second deletion found its file gone, after the first was done
C16_Witness ==
  /\ args.mode = "Delete"
  /\ pc = "failed"
  /\ idx = 2
  /\ Len(changes) = 3
  /\ Len(ops) = 2
  /\ ops[1].ok /\ ~ops[2].ok
  /\ ~Exists(fs, changes[1].from)
  /\ Exists(fs, changes[3].from)

\* ------------------------------------------------------------------------
\* C17
\* ------------------------------------------------------------------------

\* the locals of a call of quiren that has just begun
Fresh ==
  /\ entries = <<>>
  /\ text = <<>>
  /\ edited = <<>>
  /\ changes = <<>>
  /\ idx = 1
  /\ moved_to_tempfile = EmptyMap
  /\ result = NoResult

\* the snapshot taken in this step is the directory as it is now, sorted
SnapshotOfNow ==
  /\ fs' = fs
  /\ Len(entries') = Cardinality(DOMAIN fs)
  /\ {entries'[k].path : k \in DOMAIN entries'} = DOMAIN fs
  /\ \A i, j \in DOMAIN entries' :
        i < j => StrLess(entries'[i].file_name, entries'[j].file_name)
  /\ text' = serialize(entries')

\* every redirect of the map was made by a call of this session for a
\* change of its list
RedirectsOfSession ==
  \A b \in DOMAIN moved_to_tempfile :
     /\ \E k \in DOMAIN changes : k <= idx /\ changes[k].to = b
     /\ \E n \in DOMAIN ops :
          ops[n].ok /\ ops[n].from = b /\ ops[n].to = moved_to_tempfile[b]

\* C17: with --retry a failed session is followed by a new call of quiren
\* and by nothing else: the call starts with no entries, no text, no
\* changes and an empty redirect map, on the directory as the failed
\* session left it; its snapshot is the sorted directory of that moment,
\* its changes are extracted from its own edit and its own snapshot, and
\* its redirects are made by its own calls.  The driver stops only after
\* a session that succeeded (up to the bound on the number of sessions, a
\* failed session can always be followed by another).
C17_RetryRestarts ==
  /\ [](pc = "start" => Fresh)
  /\ [](RedirectsOfSession)
  /\ []((Extraction /\ pc # "failed") => changes = ExtractionOfEdited.val)
  /\ []((pc = "failed" /\ attempts < MaxAttempts) => ENABLED Retry)
  /\ [][ /\ pc = "failed" =>
             /\ ~result.ok
             /\ pc' = "start"
             /\ attempts' = attempts + 1
             /\ fs' = fs /\ args' = args
         /\ pc = "done" => UNCHANGED vars
         /\ (pc = "start" /\ pc' # "start") => (pc' = "edit" /\ SnapshotOfNow)
         /\ pc # "start" => (pc' = "start" \/ entries' = entries)
       ]_vars

\* the second session has taken its snapshot: the first one had parked b,
\* moved a to b and then found no auxiliary name for c
C17_Witness ==
  /\ pc = "edit"
  /\ attempts = 1
  /\ external = 0
  /\ Len(entries) = 3
  /\ fs[Join(Dir, B)] = A
  /\ entries[3].file_name \in RandNames
  /\ fs[entries[3].path] = B
  /\ moved_to_tempfile = EmptyMap

\* ------------------------------------------------------------------------
\* C18
\* ------------------------------------------------------------------------

\* the loop is at a Rename whose destination holds a file
DestinationTaken ==
  /\ Applying
  /\ idx <= Len(changes)
  /\ changes[idx].tag = "Rename"
  /\ Exists(fs, changes[idx].to)

\* C18: in rename mode, with nobody else changing the directory and no
\* generated name among the snapshot names or the edited lines, a run on a
\* validated listing never ends with Overwrite: whenever the destination
\* of the change the loop is at holds a file, that path is the source of a
\* change further down the list, and the file there is the one the
\* snapshot found at that path.
C18_NoOverwrite ==
  (args.mode = "Rename" /\ external = 0 /\ Validated /\ AuxNamesApart) =>
     /\ ~(pc = "failed" /\ result.val.kind = "Overwrite")
     /\ DestinationTaken =>
          LET b == changes[idx].to IN
          /\ \E k \in DOMAIN changes : k > idx /\ changes[k].from = b
          /\ b_in_changes(changes, b)
          /\ b \in DOMAIN fs0 /\ fs[b] = fs0[b]

\* the second change of a rotation finds its destination taken, after the
\* first one was applied
C18_Witness ==
  /\ args.mode = "Rename"
  /\ AuxNamesApart
  /\ DestinationTaken
  /\ pc = "apply"
  /\ idx = 2
  /\ Len(changes) = 3
  /\ Len(ops) = 2

\* ------------------------------------------------------------------------
\* C19
\* ------------------------------------------------------------------------

\* no auxiliary path of the map is the source or the destination of a change
AuxOutsideBatch ==
  \A b \in DOMAIN moved_to_tempfile : \A k \in DOMAIN changes :
     /\ moved_to_tempfile[b] # changes[k].from
     /\ moved_to_tempfile[b] # changes[k].to

\* the redirect of every source whose change is still to be applied points
\* to the path where the file found at that source is now
RedirectsCurrent ==
  \A b \in DOMAIN moved_to_tempfile : \A k \in DOMAIN changes :
     (k >= idx /\ changes[k].from = b) =>
        /\ Exists(fs, moved_to_tempfile[b])
        /\ Exists(fs1, b)
        /\ fs[moved_to_tempfile[b]] = fs1[b]

\* C19: in rename mode an auxiliary path that tmpfile returned is never the
\* source or the destination of a change of the list, a file parked at an
\* auxiliary path stays there until its own change moves it, and the
\* redirect of a source points to the path where its file is.
C19_AuxOutsideBatch ==
  (args.mode = "Rename" /\ external = 0 /\ Validated) =>
     /\ AuxOutsideBatch
     /\ RedirectsCurrent

====
